---- MODULE Spec2Model ----
(***************************************************************************)
(* Model of google.adk.tools.mcp_tool (MCPServerConfig, RemoteMCPConfig,   *)
(* RemoteMCPToolset) and google.adk.utils.feature_decorator.               *)
(*                                                                         *)
(* Three specifications share the module:                                  *)
(*   SpecFormat  MCPServerConfig construction and to_langdb_format, over   *)
(*               every combination of field values of the bounded sets;    *)
(*   Spec        RemoteMCPConfig collections and RemoteMCPToolset adapters *)
(*               living on a small heap;                                   *)
(*   SpecDeco    the working_in_progress / experimental decorators.        *)
(***************************************************************************)
EXTENDS Integers, Sequences, FiniteSets, TLC

VARIABLES
  \* ---- SpecFormat: one MCPServerConfig under construction / conversion
  fargs,       \* the keyword arguments given to the constructor
  fstage,      \* "args" | "built" | "failed" | "formatted"
  fcfg,        \* the MCPServerConfig object built (NoConfig before / on failure)
  ferr,        \* the exception raised by the constructor ("" when none)
  fresult,     \* the dict returned by MCPServerConfig.to_langdb_format
  \* ---- Spec: heap of RemoteMCPConfig objects and RemoteMCPToolset objects
  servers,         \* RemoteMCPConfig id -> its .servers list
  mcp_config,      \* RemoteMCPToolset id -> the RemoteMCPConfig id in self.mcp_config
  appended,        \* history: RemoteMCPConfig id -> configs passed to a successful add, in call order
  mcp_config_arg,  \* history: RemoteMCPToolset id -> the mcp_config argument of __init__
  closed,          \* history: the toolsets on which close() has been awaited
  last,            \* history: the last operation [op, self, args, cfg, err, ctx]
  before,          \* history: .servers of the supplied collection when __init__ started
  tools,           \* the list returned by the last get_tools
  out,             \* the list returned by the last to_langdb_format / get_mcp_servers_config
  \* ---- SpecDeco: one target and one feature decorator
  dtarget,     \* the kind of object the decorator is applied to
  dlabel,      \* label of the decorator ("WIP" | "EXPERIMENTAL")
  dmessage,    \* the message argument of decorator_factory (Omitted = default)
  dstate,      \* "undecorated" | "decorated" | "failed"
  warnings,    \* every warning passed to warnings.warn so far, in order
  dlast        \* the last operation [op, args, ret, err, warned]

varsF == <<fargs, fstage, fcfg, ferr, fresult>>
varsC == <<servers, mcp_config, appended, mcp_config_arg, closed, last, before, tools, out>>
varsD == <<dtarget, dlabel, dmessage, dstate, warnings, dlast>>
vars  == <<varsF, varsC, varsD>>

\* ------------------------------------------------------------------ bounds
MaxMeta == 2     \* most keys in a metadata dict (SpecFormat)
MaxAdds == 3     \* most endpoints appended over all collections (Spec)
MaxCalls == 2    \* most calls of a decorated target (SpecDeco)

\* ------------------------------------------------------------------ values
None    == "<None>"      \* Python None
Omitted == "<omitted>"   \* an argument left out of a call

\* Python truthiness of an Optional[str]: None and "" are falsy.
Truthy(s) == s # None /\ s # ""

EmptyDict == [k \in {} |-> ""]

\* dict literal / item assignment / dict.update
SetItem(d, key, val) == [k \in DOMAIN d \cup {key} |-> IF k = key THEN val ELSE d[k]]
update(d, other) == [k \in DOMAIN d \cup DOMAIN other |-> IF k \in DOMAIN other THEN other[k] ELSE d[k]]

Range(s) == {s[i] : i \in DOMAIN s}

ReservedKeys == {"server_url", "type", "name", "description"}
MetaKeys == ReservedKeys \cup {"region"}
MetaVals == {"X", ""}
Metas == UNION {[K -> MetaVals] : K \in {S \in SUBSET MetaKeys : Cardinality(S) <= MaxMeta}}

\* ------------------------------------------------------- MCPServerConfig
NoConfig == [server_url |-> None, type |-> None, name |-> None, description |-> None,
             metadata |-> EmptyDict]

\* pydantic validation of the declared fields: server_url and type are
\* required str fields (None or a missing argument is rejected, any string is
\* accepted, "" included);
\* name and description are Optional[str]; metadata is a dict.
Validates(a) == a.server_url \notin {None, Omitted} /\ a.type \notin {None, Omitted}

MCPServerConfig(a) ==
  [server_url |-> a.server_url, type |-> a.type, name |-> a.name,
   description |-> a.description, metadata |-> a.metadata]

\* from_url(server_url, server_type="sse", **kwargs): the keyword arguments of cls(...)
from_url(a) ==
  [server_url |-> a.server_url,
   type |-> IF a.type = Omitted THEN "sse" ELSE a.type,
   name |-> a.name, description |-> a.description, metadata |-> a.metadata]

\* mutant: name / description tested with "is not None" instead of truthiness
to_langdb_format_not_none(c) ==
  LET base == SetItem(SetItem(EmptyDict, "server_url", c.server_url), "type", c.type)
      r1 == IF c.name # None THEN SetItem(base, "name", c.name) ELSE base
      r2 == IF c.description # None THEN SetItem(r1, "description", c.description) ELSE r1
  IN IF c.metadata # EmptyDict THEN update(r2, c.metadata) ELSE r2

\* mutant: metadata merged first, the base fields written over it
to_langdb_format_base_wins(c) ==
  LET r0 == SetItem(SetItem(c.metadata, "server_url", c.server_url), "type", c.type)
      r1 == IF Truthy(c.name) THEN SetItem(r0, "name", c.name) ELSE r0
  IN IF Truthy(c.description) THEN SetItem(r1, "description", c.description) ELSE r1

to_langdb_format(c) ==
  LET base == SetItem(SetItem(EmptyDict, "server_url", c.server_url), "type", c.type)
      r1 == IF Truthy(c.name) THEN SetItem(base, "name", c.name) ELSE base
      r2 == IF Truthy(c.description) THEN SetItem(r1, "description", c.description) ELSE r1
  IN IF c.metadata # EmptyDict THEN update(r2, c.metadata) ELSE r2

\* ------------------------------------------------------------- SpecFormat
UrlVals  == {None, "", "u1"}
TypeVals == {None, Omitted, "", "sse"}
NameVals == {None, "", "n1"}
DescVals == {None, "", "d1"}

FormatArgs ==
  [server_url : UrlVals, type : TypeVals, name : NameVals, description : DescVals,
   metadata : Metas]

InitF ==
  /\ fargs \in FormatArgs
  /\ fstage = "args"
  /\ fcfg = NoConfig
  /\ ferr = ""
  /\ fresult = EmptyDict

\* MCPServerConfig(server_url=..., type=..., name=..., description=..., metadata=...)
Construct ==
  /\ fstage = "args"
  /\ IF Validates(fargs)
       THEN fstage' = "built" /\ fcfg' = MCPServerConfig(fargs) /\ ferr' = ""
       ELSE fstage' = "failed" /\ fcfg' = NoConfig /\ ferr' = "ValidationError"
  /\ UNCHANGED <<fargs, fresult, varsC, varsD>>

\* MCPServerConfig.from_url(server_url, [server_type], name=..., description=..., metadata=...)
FromUrl ==
  /\ fstage = "args"
  /\ IF Validates(from_url(fargs))
       THEN fstage' = "built" /\ fcfg' = MCPServerConfig(from_url(fargs)) /\ ferr' = ""
       ELSE fstage' = "failed" /\ fcfg' = NoConfig /\ ferr' = "ValidationError"
  /\ UNCHANGED <<fargs, fresult, varsC, varsD>>

\* config.to_langdb_format()
ToLangdbFormat ==
  /\ fstage \in {"built", "formatted"}
  /\ fstage' = "formatted"
  /\ fresult' = to_langdb_format(fcfg)
  /\ UNCHANGED <<fargs, fcfg, ferr, varsC, varsD>>

NextF == Construct \/ FromUrl \/ ToLangdbFormat

\* ------------------------------------------------- RemoteMCPConfig (heap)
Colls    == {"c1", "c2"}
Toolsets == {"t1"}

RECURSIVE SumLen(_, _)
SumLen(f, S) ==
  IF S = {} THEN 0
  ELSE LET c == CHOOSE x \in S : TRUE IN Len(f[c]) + SumLen(f, S \ {c})

\* endpoints held by all collections together
TotalLen == SumLen(servers, DOMAIN servers)

\* the id the next RemoteMCPConfig() object gets
Fresh == CHOOSE c \in Colls \ DOMAIN servers : TRUE

\* mutant: an endpoint equal to one already held is dropped
add_server_dedup(list, server) ==
  IF server \in Range(list) THEN list ELSE Append(list, server)

\* mutant: the endpoint is inserted at the front
add_server_front(list, server) == <<server>> \o list

\* RemoteMCPConfig.add_server: self.servers.append(server)
add_server(list, server) == Append(list, server)

\* RemoteMCPConfig.to_langdb_format: [server.to_langdb_format() for server in self.servers]
to_langdb_format_list(list) == [i \in 1..Len(list) |-> to_langdb_format(list[i])]

\* RemoteMCPConfig.__len__ / __bool__
ConfigLen(c)  == Len(servers[c])
ConfigBool(c) == Len(servers[c]) > 0

\* RemoteMCPToolset.__len__ / __bool__
ToolsetLen(t)  == ConfigLen(mcp_config[t])
ToolsetBool(t) == ConfigBool(mcp_config[t])

\* mutant: one tool per configured server
get_tools_listed(t, readonly_context) == [i \in 1..ToolsetLen(t) |-> "tool"]

\* RemoteMCPToolset.get_tools
get_tools(t, readonly_context) == <<>>

\* mutant: the name and description arguments are not passed on
toolset_server_config_no_name(a) ==
  [server_url |-> a.server_url,
   type |-> IF a.type = Omitted THEN "sse" ELSE a.type,
   name |-> None, description |-> None, metadata |-> a.metadata]

\* RemoteMCPToolset.add_server: keyword arguments of MCPServerConfig(...),
\* server_type defaulting to "sse", **metadata passed as the metadata dict
toolset_server_config(a) ==
  [server_url |-> a.server_url,
   type |-> IF a.type = Omitted THEN "sse" ELSE a.type,
   name |-> a.name, description |-> a.description, metadata |-> a.metadata]

\* arguments of the add operations
ArgA == [server_url |-> "u1", type |-> "sse", name |-> None, description |-> None,
         metadata |-> EmptyDict]
ArgB == [server_url |-> "u2", type |-> Omitted, name |-> "n1", description |-> None,
         metadata |-> SetItem(EmptyDict, "type", "X")]
ArgE == [server_url |-> "", type |-> "", name |-> None, description |-> None,
         metadata |-> EmptyDict]
ArgN == [server_url |-> None, type |-> "sse", name |-> None, description |-> None,
         metadata |-> EmptyDict]
AddArgs == {ArgA, ArgB, ArgE, ArgN}

\* MCPServerConfig objects built beforehand and handed to add_server / add_server_config
Prebuilt == {MCPServerConfig(from_url(a)) : a \in {x \in AddArgs : Validates(from_url(x))}}

\* single-endpoint arguments of RemoteMCPToolset(...): server_url, server_type,
\* server_name, server_description
InitNone == [server_url |-> None, type |-> Omitted, name |-> None, description |-> None,
             metadata |-> EmptyDict]
InitUrl  == [server_url |-> "u1", type |-> Omitted, name |-> "n1", description |-> "d1",
             metadata |-> EmptyDict]
InitEmptyUrl == [server_url |-> "", type |-> "sse", name |-> None, description |-> None,
                 metadata |-> EmptyDict]
InitBadType  == [server_url |-> "u2", type |-> None, name |-> None, description |-> None,
                 metadata |-> EmptyDict]
InitArgs == {InitNone, InitUrl, InitEmptyUrl, InitBadType}

NoTools == <<"unset">>
NoArgs == [server_url |-> Omitted, type |-> Omitted, name |-> Omitted, description |-> Omitted,
           metadata |-> EmptyDict]
Op(op, self, args, cfg, err, ctx) ==
  [op |-> op, self |-> self, args |-> args, cfg |-> cfg, err |-> err, ctx |-> ctx]

InitC ==
  /\ servers = [c \in {} |-> <<>>]
  /\ appended = [c \in {} |-> <<>>]
  /\ mcp_config = [t \in {} |-> None]
  /\ mcp_config_arg = [t \in {} |-> None]
  /\ closed = {}
  /\ last = Op("start", None, NoArgs, NoConfig, "", None)
  /\ before = <<>>
  /\ tools = NoTools
  /\ out = <<>>

\* RemoteMCPConfig()
RemoteMCPConfigInit ==
  /\ Colls \ DOMAIN servers # {}
  /\ servers' = servers @@ (Fresh :> <<>>)
  /\ appended' = appended @@ (Fresh :> <<>>)
  /\ last' = Op("RemoteMCPConfig", Fresh, NoArgs, NoConfig, "", None)
  /\ before' = <<>> /\ tools' = NoTools /\ out' = <<>>
  /\ UNCHANGED <<mcp_config, mcp_config_arg, closed, varsF, varsD>>

\* config.add_server(server)
ConfigAddServer(c, server) ==
  /\ c \in DOMAIN servers
  /\ TotalLen < MaxAdds
  /\ servers' = [servers EXCEPT ![c] = add_server(@, server)]
  /\ appended' = [appended EXCEPT ![c] = Append(@, server)]
  /\ last' = Op("RemoteMCPConfig.add_server", c, NoArgs, server, "", None)
  /\ before' = <<>> /\ tools' = NoTools /\ out' = <<>>
  /\ UNCHANGED <<mcp_config, mcp_config_arg, closed, varsF, varsD>>

\* config.add_server_url(server_url, server_type, **kwargs)
ConfigAddServerUrl(c, a) ==
  /\ c \in DOMAIN servers
  /\ TotalLen < MaxAdds
  /\ IF Validates(from_url(a))
       THEN /\ servers' = [servers EXCEPT ![c] = add_server(@, MCPServerConfig(from_url(a)))]
            /\ appended' = [appended EXCEPT ![c] = Append(@, MCPServerConfig(from_url(a)))]
            /\ last' = Op("RemoteMCPConfig.add_server_url", c, a, MCPServerConfig(from_url(a)), "", None)
       ELSE /\ UNCHANGED <<servers, appended>>
            /\ last' = Op("RemoteMCPConfig.add_server_url", c, a, NoConfig, "ValidationError", None)
  /\ before' = <<>> /\ tools' = NoTools /\ out' = <<>>
  /\ UNCHANGED <<mcp_config, mcp_config_arg, closed, varsF, varsD>>

\* config.to_langdb_format()
ConfigToLangdbFormat(c) ==
  /\ c \in DOMAIN servers
  /\ out' = to_langdb_format_list(servers[c])
  /\ last' = Op("RemoteMCPConfig.to_langdb_format", c, NoArgs, NoConfig, "", None)
  /\ before' = <<>> /\ tools' = NoTools
  /\ UNCHANGED <<servers, appended, mcp_config, mcp_config_arg, closed, varsF, varsD>>

\* ------------------------------------------------------- RemoteMCPToolset
\* RemoteMCPToolset(server_url=..., server_type=..., server_name=...,
\*                  server_description=..., mcp_config=mc)
\*   if mcp_config:   (None and an empty RemoteMCPConfig are both falsy)
\*       self.mcp_config = mcp_config
\*   else:
\*       self.mcp_config = RemoteMCPConfig()
\*   if server_url:
\*       self.add_server(server_url=..., server_type=..., name=..., description=...)
\* An exception of add_server leaves __init__, so no toolset object exists.
ToolsetInit(t, a, mc) ==
  /\ t \notin DOMAIN mcp_config
  /\ mc \in {None} \cup DOMAIN servers
  /\ LET use    == mc # None /\ ConfigBool(mc)
         adds   == Truthy(a.server_url)
         valid  == Validates(toolset_server_config(a))
         server == MCPServerConfig(toolset_server_config(a))
     IN /\ ~use => Colls \ DOMAIN servers # {}
        /\ (adds /\ valid) => TotalLen < MaxAdds
        /\ LET coll == IF use THEN mc ELSE Fresh
               s1   == IF use THEN servers ELSE servers @@ (coll :> <<>>)
               h1   == IF use THEN appended ELSE appended @@ (coll :> <<>>)
           IN IF adds /\ ~valid
                THEN /\ UNCHANGED <<servers, appended, mcp_config, mcp_config_arg>>
                     /\ last' = Op("RemoteMCPToolset", t, a, NoConfig, "ValidationError", None)
                ELSE /\ servers' = IF adds THEN [s1 EXCEPT ![coll] = add_server(@, server)] ELSE s1
                     /\ appended' = IF adds THEN [h1 EXCEPT ![coll] = Append(@, server)] ELSE h1
                     /\ mcp_config' = mcp_config @@ (t :> coll)
                     /\ mcp_config_arg' = mcp_config_arg @@ (t :> mc)
                     /\ last' = Op("RemoteMCPToolset", t, a, IF adds THEN server ELSE NoConfig, "", None)
  /\ before' = IF mc # None THEN servers[mc] ELSE <<>>
  /\ tools' = NoTools /\ out' = <<>>
  /\ UNCHANGED <<closed, varsF, varsD>>

\* toolset.add_server(server_url, server_type, name, description, **metadata)
ToolsetAddServer(t, a) ==
  /\ t \in DOMAIN mcp_config
  /\ TotalLen < MaxAdds
  /\ IF Validates(toolset_server_config(a))
       THEN LET server == MCPServerConfig(toolset_server_config(a))
            IN /\ servers' = [servers EXCEPT ![mcp_config[t]] = add_server(@, server)]
               /\ appended' = [appended EXCEPT ![mcp_config[t]] = Append(@, server)]
               /\ last' = Op("RemoteMCPToolset.add_server", t, a, server, "", None)
       ELSE /\ UNCHANGED <<servers, appended>>
            /\ last' = Op("RemoteMCPToolset.add_server", t, a, NoConfig, "ValidationError", None)
  /\ before' = <<>> /\ tools' = NoTools /\ out' = <<>>
  /\ UNCHANGED <<mcp_config, mcp_config_arg, closed, varsF, varsD>>

\* toolset.add_server_config(server_config)
ToolsetAddServerConfig(t, server) ==
  /\ t \in DOMAIN mcp_config
  /\ TotalLen < MaxAdds
  /\ servers' = [servers EXCEPT ![mcp_config[t]] = add_server(@, server)]
  /\ appended' = [appended EXCEPT ![mcp_config[t]] = Append(@, server)]
  /\ last' = Op("RemoteMCPToolset.add_server_config", t, NoArgs, server, "", None)
  /\ before' = <<>> /\ tools' = NoTools /\ out' = <<>>
  /\ UNCHANGED <<mcp_config, mcp_config_arg, closed, varsF, varsD>>

\* await toolset.get_tools(readonly_context)
GetTools(t, readonly_context) ==
  /\ t \in DOMAIN mcp_config
  /\ tools' = get_tools(t, readonly_context)
  /\ last' = Op("RemoteMCPToolset.get_tools", t, NoArgs, NoConfig, "", readonly_context)
  /\ before' = <<>> /\ out' = <<>>
  /\ UNCHANGED <<servers, appended, mcp_config, mcp_config_arg, closed, varsF, varsD>>

\* await toolset.close(): a no-op
Close(t) ==
  /\ t \in DOMAIN mcp_config
  /\ closed' = closed \cup {t}
  /\ last' = Op("RemoteMCPToolset.close", t, NoArgs, NoConfig, "", None)
  /\ before' = <<>> /\ tools' = NoTools /\ out' = <<>>
  /\ UNCHANGED <<servers, appended, mcp_config, mcp_config_arg, varsF, varsD>>

\* toolset.get_mcp_servers_config()
GetMcpServersConfig(t) ==
  /\ t \in DOMAIN mcp_config
  /\ out' = to_langdb_format_list(servers[mcp_config[t]])
  /\ last' = Op("RemoteMCPToolset.get_mcp_servers_config", t, NoArgs, NoConfig, "", None)
  /\ before' = <<>> /\ tools' = NoTools
  /\ UNCHANGED <<servers, appended, mcp_config, mcp_config_arg, closed, varsF, varsD>>

Contexts == {None, "ctx"}

NextC ==
  \/ RemoteMCPConfigInit
  \/ \E c \in Colls, server \in Prebuilt : ConfigAddServer(c, server)
  \/ \E c \in Colls, a \in AddArgs : ConfigAddServerUrl(c, a)
  \/ \E c \in Colls : ConfigToLangdbFormat(c)
  \/ \E t \in Toolsets, a \in InitArgs, mc \in {None} \cup Colls : ToolsetInit(t, a, mc)
  \/ \E t \in Toolsets, a \in AddArgs : ToolsetAddServer(t, a)
  \/ \E t \in Toolsets, server \in Prebuilt : ToolsetAddServerConfig(t, server)
  \/ \E t \in Toolsets, ctx \in Contexts : GetTools(t, ctx)
  \/ \E t \in Toolsets : Close(t)
  \/ \E t \in Toolsets : GetMcpServersConfig(t)

\* ------------------------------------------------------ feature_decorator
Labels == {"WIP", "EXPERIMENTAL"}

\* default_message of working_in_progress / experimental
default_message(label) ==
  IF label = "WIP"
    THEN "This feature is a work in progress and may be incomplete or unstable."
    ELSE "This feature is experimental and may change or be removed in future versions without notice. It may introduce breaking changes at any time."

\* decorator_factory(message=default_message)
factory_message(label, message) == IF message = Omitted THEN default_message(label) ELSE message

\* str.upper on the labels
upper(label) ==
  CASE label \in {"WIP", "wip", "Wip"} -> "WIP"
    [] label \in {"EXPERIMENTAL", "experimental", "Experimental"} -> "EXPERIMENTAL"

\* The objects a decorator is applied to:
\*   function         def my_function(*args)
\*   callable_object  an instance of a class defining __call__ (it has no __name__)
\*   class            class MyClass with its own __init__(self, *args)
\*   class_new_only   class NewOnly defining __new__(cls, *args) and no __init__
\*   builtin_class    a built-in (immutable) type such as int
\*   int_value        the integer 5
\*   str_value        the string "s"
Targets == {"function", "callable_object", "class", "class_new_only", "builtin_class",
            "int_value", "str_value"}

\* isinstance(obj, type) / callable(obj)
isinstance_type(k) == k \in {"class", "class_new_only", "builtin_class"}
callable(k) == isinstance_type(k) \/ k \in {"function", "callable_object"}

\* obj_name = getattr(obj, "__name__", type(obj).__name__)
obj_name(k) ==
  CASE k = "function" -> "my_function"
    [] k = "callable_object" -> "MyCallable"
    [] k = "class" -> "MyClass"
    [] k = "class_new_only" -> "NewOnly"
    [] k = "builtin_class" -> "int"
    [] k = "int_value" -> "int"
    [] k = "str_value" -> "str"

\* warn_msg = f"[{label.upper()}] {obj_name}: {message}"
warn_msg(label, k, message) == <<"[", upper(label), "] ", obj_name(k), ": ", message>>

\* f"@{label} can only be applied to classes or callable objects"
type_error_msg(label) == <<"TypeError", "@", label, " can only be applied to classes or callable objects">>

\* obj.__init__ = new_init: a built-in type rejects the assignment
ImmutableTypeError == <<"TypeError", "cannot set '__init__' attribute of immutable type">>
init_assignable(k) == k # "builtin_class"

NoError == <<>>
Ret(kind, of, args) == [kind |-> kind, of |-> of, args |-> args]
NoRet == Ret("none", "", <<>>)

\* orig_init(self, *args, **kwargs), orig_init = obj.__init__ read before the
\* rebinding. A class with its own __init__ takes the arguments. For a class
\* without one, orig_init is object.__init__, which rejects extra arguments
\* once the class's __init__ is no longer object.__init__ (rebound).
orig_init(k, args, rebound) ==
  IF k = "class_new_only" /\ rebound /\ args # <<>>
    THEN Ret("raise", "TypeError: object.__init__() takes exactly one argument", <<>>)
    ELSE Ret("instance", obj_name(k), args)

\* the target called with args: obj(*args) for a function or callable object,
\* obj.__new__ then obj.__init__ for a class
target_call(k, args, rebound) ==
  IF isinstance_type(k) THEN orig_init(k, args, rebound) ELSE Ret("value", obj_name(k), args)

\* new_init(self, *args, **kwargs) / wrapper(*args, **kwargs), after the warning
decorated_call(k, args) == target_call(k, args, isinstance_type(k))

\* decorator(obj): the exception it raises (NoError when it returns)
decorator_error(label, k) ==
  IF isinstance_type(k)
    THEN IF init_assignable(k) THEN NoError ELSE ImmutableTypeError
    ELSE IF callable(k) THEN NoError ELSE type_error_msg(label)

CallArgs == {<<>>, <<"a">>, <<"a", "b">>}
Messages == {Omitted, "custom"}

InitD ==
  /\ dtarget \in Targets
  /\ dlabel \in Labels
  /\ dmessage \in Messages
  /\ dstate = "undecorated"
  /\ warnings = <<>>
  /\ dlast = [op |-> "start", args |-> <<>>, ret |-> NoRet, err |-> NoError, warned |-> 0]

\* @working_in_progress(message) / @experimental(message) applied to the target
Decorate ==
  /\ dstate = "undecorated"
  /\ dstate' = IF decorator_error(dlabel, dtarget) = NoError THEN "decorated" ELSE "failed"
  /\ dlast' = [op |-> "decorate", args |-> <<>>, ret |-> NoRet,
               err |-> decorator_error(dlabel, dtarget), warned |-> 0]
  /\ UNCHANGED <<dtarget, dlabel, dmessage, warnings, varsF, varsC>>

\* a call of the decorated function / a construction of the decorated class
Call(args) ==
  /\ dstate = "decorated"
  /\ Len(warnings) < MaxCalls
  /\ warnings' = Append(warnings, warn_msg(dlabel, dtarget, factory_message(dlabel, dmessage)))
  /\ dlast' = [op |-> "call", args |-> args, ret |-> decorated_call(dtarget, args),
               err |-> NoError, warned |-> 1]
  /\ UNCHANGED <<dtarget, dlabel, dmessage, dstate, varsF, varsC>>

NextD == Decorate \/ \E args \in CallArgs : Call(args)

\* ---------------------------------------------------------- specifications
\* Each specification runs one component; the variables of the other two stay
\* at one fixed initial value.
IdleF ==
  /\ fargs = [server_url |-> None, type |-> None, name |-> None, description |-> None,
              metadata |-> EmptyDict]
  /\ fstage = "args" /\ fcfg = NoConfig /\ ferr = "" /\ fresult = EmptyDict

IdleD ==
  /\ dtarget = "function" /\ dlabel = "WIP" /\ dmessage = Omitted
  /\ dstate = "undecorated" /\ warnings = <<>>
  /\ dlast = [op |-> "start", args |-> <<>>, ret |-> NoRet, err |-> NoError, warned |-> 0]

Init       == IdleF /\ InitC /\ IdleD
InitFormat == InitF /\ InitC /\ IdleD
InitDeco   == IdleF /\ InitC /\ InitD

Spec       == Init /\ [][NextC]_vars
SpecFormat == InitFormat /\ [][NextF]_vars
SpecDeco   == InitDeco /\ [][NextD]_vars

\* ------------------------------------------------------------------ claims

\* C1 (as stated; refuted): the dict returned by to_langdb_format always has
\* the keys 'server_url' and 'type', has 'name' iff the config's name is
\* non-empty/non-null and 'description' iff its description is
\* non-empty/non-null, whatever the metadata.
C1_OptionalKeysIffField ==
  fstage = "formatted" =>
    /\ {"server_url", "type"} \subseteq DOMAIN fresult
    /\ ("name" \in DOMAIN fresult) <=> Truthy(fcfg.name)
    /\ ("description" \in DOMAIN fresult) <=> Truthy(fcfg.description)

\* C1 (amended): 'server_url' and 'type' are always present; 'name' is present
\* iff the config's name is non-empty/non-null or metadata has a key 'name';
\* 'description' is present iff the description is non-empty/non-null or
\* metadata has a key 'description'.
C1_OptionalKeysIffFieldOrMetadata ==
  fstage = "formatted" =>
    /\ {"server_url", "type"} \subseteq DOMAIN fresult
    /\ ("name" \in DOMAIN fresult) <=> (Truthy(fcfg.name) \/ "name" \in DOMAIN fcfg.metadata)
    /\ ("description" \in DOMAIN fresult) <=>
         (Truthy(fcfg.description) \/ "description" \in DOMAIN fcfg.metadata)

\* C1 witness: a config whose name is None and whose metadata has the key
\* 'name' has been converted, and one optional field is empty.
C1_Witness ==
  /\ fstage = "formatted"
  /\ fcfg.name = None /\ "name" \in DOMAIN fcfg.metadata /\ "name" \in DOMAIN fresult
  /\ fcfg.description = "" /\ "description" \notin DOMAIN fresult

\* C2: metadata is applied after the base fields: every metadata key, colliding
\* with a reserved key or not, is a top-level key of the result mapped to the
\* metadata value; the result has no other keys than the reserved ones and the
\* metadata keys; the conversion raises nothing; converting the same config
\* again gives the same result.
C2_State ==
  fstage = "formatted" =>
    /\ ferr = ""
    /\ \A k \in DOMAIN fcfg.metadata : k \in DOMAIN fresult /\ fresult[k] = fcfg.metadata[k]
    /\ DOMAIN fresult \subseteq ReservedKeys \cup DOMAIN fcfg.metadata
    /\ \A k \in (DOMAIN fresult \cap {"server_url", "type"}) \ DOMAIN fcfg.metadata :
         fresult[k] = fcfg[k]

C2_SameResult == (fstage = "formatted" /\ fstage' = "formatted") => fresult' = fresult

\* C2: the state part holds in every state and a repeated conversion never
\* changes the result.
C2_MetadataWins == [](C2_State) /\ [][C2_SameResult]_vars

\* C2 witness: a config of type 'sse' with metadata {'type': 'X', 'region': ...}
\* has been converted: 'type' maps to 'X' and 'region' is a top-level key.
C2_Witness ==
  /\ fstage = "formatted"
  /\ fcfg.type = "sse"
  /\ DOMAIN fcfg.metadata = {"type", "region"} /\ fcfg.metadata["type"] = "X"
  /\ fresult["type"] = "X" /\ "region" \in DOMAIN fresult

\* C3: every collection holds exactly the endpoints appended to it, in call
\* order, duplicates kept; the list conversion returns one mapping per appended
\* endpoint in that order; an operation never changes or moves an entry
\* already held (the earlier list is a prefix of the later one).
C3_State ==
  /\ \A c \in DOMAIN servers : servers[c] = appended[c]
  /\ last.op = "RemoteMCPConfig.to_langdb_format" =>
       /\ Len(out) = Len(appended[last.self])
       /\ \A i \in 1..Len(out) : out[i] = to_langdb_format(appended[last.self][i])

C3_Prefix ==
  \A c \in DOMAIN servers :
    /\ c \in DOMAIN servers'
    /\ Len(servers'[c]) >= Len(servers[c])
    /\ SubSeq(servers'[c], 1, Len(servers[c])) = servers[c]

\* C3: the lists equal the append histories in every state and every step
\* keeps each earlier list as a prefix of the later one.
C3_OrderPreserved == [](C3_State) /\ [][C3_Prefix]_vars

\* C3 witness: a collection to which A, B, A were appended has been converted:
\* three mappings, the first and third equal, the second different.
C3_Witness ==
  /\ last.op = "RemoteMCPConfig.to_langdb_format"
  /\ Len(out) = 3 /\ out[1] = out[3] /\ out[1] # out[2]
  /\ out[1]["server_url"] = "u1" /\ out[2]["server_url"] = "u2"

\* C4: get_tools returns the empty list, with or without a context, for any
\* number of endpoints, before or after close.
C4_GetToolsEmpty == last.op = "RemoteMCPToolset.get_tools" => tools = <<>>

\* C4 witness: get_tools was awaited with a context on a closed toolset that
\* has two or more endpoints.
C4_Witness ==
  /\ last.op = "RemoteMCPToolset.get_tools" /\ last.ctx = "ctx"
  /\ last.self \in closed
  /\ ToolsetLen(last.self) >= 2
  /\ tools = <<>>

\* the endpoint RemoteMCPToolset(...) is to build from its single-endpoint arguments
InitEndpoint(a) ==
  [server_url |-> a.server_url, type |-> IF a.type = Omitted THEN "sse" ELSE a.type,
   name |-> a.name, description |-> a.description, metadata |-> EmptyDict]

BothSupplied ==
  /\ last.op = "RemoteMCPToolset" /\ last.err = ""
  /\ Truthy(last.args.server_url)
  /\ mcp_config_arg[last.self] # None

\* C5 (as stated; refuted): constructed with both a server URL and a
\* collection, the toolset's endpoints are exactly those the supplied
\* collection held; no endpoint built from the single-endpoint fields is added.
\* Stated for a supplied collection that holds an endpoint, which is the
\* collection the toolset then wraps.
C5_UrlIgnored ==
  (BothSupplied /\ Len(before) >= 1) =>
    /\ mcp_config[last.self] = mcp_config_arg[last.self]
    /\ servers[mcp_config[last.self]] = before

\* C5 (amended): constructed with both a server URL and a collection, the
\* toolset's endpoints are those the supplied collection held followed by one
\* endpoint built from the single-endpoint fields (url, type, name, description).
C5_UrlAppended ==
  BothSupplied => servers[mcp_config[last.self]] = Append(before, InitEndpoint(last.args))

\* C5 witness: a toolset was constructed from a URL and a collection that
\* already held an endpoint.
C5_Witness == BothSupplied /\ Len(before) >= 1 /\ ToolsetLen(last.self) = Len(before) + 1

\* C6: a fresh collection, and a toolset constructed with no URL and no
\* collection, has length 0 and is falsy; a collection's length is the number
\* of successful adds made to it and it is truthy exactly when that number is
\* positive; a toolset's length and truth value are those of the collection
\* it wraps.
C6_LengthCountsAdds ==
  /\ \A c \in DOMAIN servers :
       /\ ConfigLen(c) = Len(appended[c])
       /\ ConfigBool(c) <=> Len(appended[c]) > 0
  /\ \A t \in DOMAIN mcp_config :
       /\ ToolsetLen(t) = Len(appended[mcp_config[t]])
       /\ ToolsetBool(t) <=> Len(appended[mcp_config[t]]) > 0
  /\ last.op = "RemoteMCPConfig" => ConfigLen(last.self) = 0 /\ ~ConfigBool(last.self)
  /\ (/\ last.op = "RemoteMCPToolset" /\ last.err = ""
      /\ last.args.server_url = None /\ mcp_config_arg[last.self] = None)
       => ToolsetLen(last.self) = 0 /\ ~ToolsetBool(last.self)

\* C6 witness: a toolset built with no URL and no collection has had the same
\* endpoint added twice and a third one: its length is 3.
C6_Witness ==
  \E t \in DOMAIN mcp_config :
    /\ mcp_config_arg[t] = None
    /\ ToolsetLen(t) = 3 /\ ToolsetBool(t)
    /\ appended[mcp_config[t]][1] = appended[mcp_config[t]][2]

\* C7 (refuted by the code): constructing a config, directly or through
\* from_url, with an empty server_url or an empty type fails and produces no
\* config object.
C7_EmptyRejected ==
  (fstage \in {"built", "failed"} /\ (fargs.server_url = "" \/ fargs.type = "")) =>
    fstage = "failed" /\ ferr = "ValidationError" /\ fcfg = NoConfig

\* C8 (refuted by the code): applying the decorator emits no warning; every
\* call of the decorated function and every construction of the decorated
\* class emits exactly one warning '[LABEL] <name>: <message>' and returns
\* what the undecorated target returns for the same arguments.
C8_WarnsOnceAndDelegates ==
  /\ dlast.op = "decorate" => dlast.warned = 0 /\ warnings = <<>>
  /\ dlast.op = "call" =>
       /\ dlast.warned = 1
       /\ warnings[Len(warnings)] =
            <<"[", dlabel, "] ", obj_name(dtarget), ": ",
              IF dmessage = Omitted THEN default_message(dlabel) ELSE dmessage>>
       /\ dlast.ret = target_call(dtarget, dlast.args, FALSE)

\* C9 (refuted by the code): decorating a value that is neither a class nor
\* callable fails at once with the TypeError naming the label, with no warning
\* and no wrapper; decorating a class or a callable never fails.
C9_OnlyFailurePath ==
  dlast.op = "decorate" =>
    IF ~isinstance_type(dtarget) /\ ~callable(dtarget)
      THEN dlast.err = type_error_msg(dlabel) /\ dstate = "failed" /\ warnings = <<>>
      ELSE dlast.err = NoError /\ dstate = "decorated"

\* C10 (refuted by the code): a toolset constructed from a supplied collection,
\* empty or not, wraps that collection: its length is the supplied
\* collection's length and every endpoint added through the toolset is in the
\* supplied collection.
C10_WrapsSupplied ==
  \A t \in DOMAIN mcp_config :
    mcp_config_arg[t] # None =>
      /\ ToolsetLen(t) = ConfigLen(mcp_config_arg[t])
      /\ (/\ last.op \in {"RemoteMCPToolset.add_server", "RemoteMCPToolset.add_server_config"}
          /\ last.self = t /\ last.err = "")
           => last.cfg \in Range(servers[mcp_config_arg[t]])
====
